---- MODULE Spec2Model ----
(***************************************************************************)
(* Model of the two mock services of kessel-in-a-box:                      *)
(*   services/insights-host-inventory/app.py  (hosts, host groups)         *)
(*   services/insights-rbac/app.py            (workspaces, roles)          *)
(* Each HTTP request is a handler instance.  A handler runs its local      *)
(* transaction in one step (the store serialises it), and the handlers     *)
(* that call the Kessel Inventory API afterwards (create_host,             *)
(* delete_host) go on through the network call and the return statement    *)
(* in separate steps, so that concurrent requests interleave there.        *)
(***************************************************************************)
EXTENDS Integers, Sequences, FiniteSets, TLC

MaxReqs == 2    \* requests issued in one behaviour
MaxIds  == 2    \* identifiers per entity type

Ids  == 1..MaxIds
None == "None"          \* Python None / key absent from the JSON body
NoRes == "NoRes"        \* Kessel holds no resource with that id

DEFAULT_WORKSPACE == "00000000-0000-0000-0000-000000000001"

\* values a JSON body may carry for each field
NameInputs      == {None, "", "web1"}
WorkspaceInputs == {None, "ws1"}
UpdateNames     == {None, "web2"}
UpdateFacts     == {None, "fqdn"}

DbOutcomes == {"ok", "connect_error", "execute_error"}

VARIABLES
    hosts,        \* inventory.hosts       : id -> row, for the ids that have a row
    host_groups,  \* inventory.host_groups : id -> row
    workspaces,   \* rbac.workspaces       : id -> row
    roles,        \* rbac.roles            : id -> row
    nextId,       \* per table, the number of identifiers handed out
    remote,       \* resources held by the Kessel Inventory API: id -> workspace or NoRes
    inflight,     \* HTTP requests sent to Kessel and not yet processed by it
    reqs          \* the request handlers, in order of arrival

vars == <<hosts, host_groups, workspaces, roles, nextId, remote, inflight, reqs>>

stores == <<hosts, host_groups, workspaces, roles, nextId>>

----------------------------------------------------------------------------
\* Python truthiness test `not value` on a JSON string or None
MissingNever(v) == FALSE

Missing(v) == v = None \/ v = ""

\* cur.rowcount of an UPDATE/DELETE ... WHERE id = %s
RowCountOne(store, id) == 1

RowCount(store, id) == IF id \in DOMAIN store THEN 1 ELSE 0

\* INSERT INTO ... VALUES (id, ...)
SqlInsert(store, id, row) ==
    [i \in DOMAIN store \cup {id} |-> IF i = id THEN row ELSE store[i]]

\* UPDATE inventory.hosts SET ... WHERE id = %s
SqlUpdate(store, id, d) ==
    IF id \notin DOMAIN store THEN store
    ELSE [store EXCEPT ![id] =
            [display_name    |-> IF d.name = None THEN @.display_name ELSE d.name,
             canonical_facts |-> IF d.canonical_facts = None THEN @.canonical_facts
                                 ELSE d.canonical_facts,
             workspace_id    |-> @.workspace_id]]

\* DELETE FROM ... WHERE id = %s
SqlDelete(store, id) == [i \in DOMAIN store \ {id} |-> store[i]]

Data(n, w, f) == [name |-> n, workspace_id |-> w, canonical_facts |-> f]

\* a handler that has just been entered
NewReq(k, id, d) ==
    [kind |-> k, pc |-> "start", id |-> id, data |-> d, status |-> 0,
     conn |-> "none", tx |-> "none", rowcount |-> -1,
     resp |-> "none", warn |-> FALSE,
     absent |-> FALSE, landed |-> FALSE]

\* return jsonify(...), code
Respond(r, code) == [r EXCEPT !.pc = "done", !.status = code]

\* except Exception as e: ... return jsonify({'error': str(e)}), 500
\* get_db_connection() raised: no connection was opened
ConnectError(r) == Respond(r, 500)

\* cur.execute() raised: the connection is open and its transaction is not ended
ExecuteError(r) == Respond([r EXCEPT !.conn = "open", !.tx = "pending"], 500)

\* conn.commit(); cur.close(); conn.close()
Committed(r) == [r EXCEPT !.conn = "closed", !.tx = "committed"]

CanIssue == Len(reqs) < MaxReqs

Init ==
    /\ hosts = <<>>
    /\ host_groups = <<>>
    /\ workspaces = <<>>
    /\ roles = <<>>
    /\ nextId = [t \in {"hosts", "host_groups", "workspaces", "roles"} |-> 1]
    /\ remote = [i \in Ids |-> NoRes]
    /\ inflight = {}
    /\ reqs = <<>>

----------------------------------------------------------------------------
\* insights-host-inventory

\* POST /api/v1/hosts, up to the end of step 1 (the local transaction)
create_host(d, db) ==
    /\ CanIssue
    /\ LET r == NewReq("create_host", None, d) IN
       IF Missing(d.name)
       THEN /\ reqs' = Append(reqs, Respond(r, 400))
            /\ UNCHANGED <<hosts, nextId>>
       ELSE CASE db = "connect_error" ->
                 /\ reqs' = Append(reqs, ConnectError(r))
                 /\ UNCHANGED <<hosts, nextId>>
              [] db = "execute_error" ->
                 /\ reqs' = Append(reqs, ExecuteError(r))
                 /\ UNCHANGED <<hosts, nextId>>
              [] OTHER ->
                 /\ nextId["hosts"] <= MaxIds
                 /\ LET id == nextId["hosts"] IN
                    /\ hosts' = SqlInsert(hosts, id,
                          [display_name    |-> d.name,
                           canonical_facts |-> IF d.canonical_facts = None THEN "{}"
                                               ELSE d.canonical_facts,
                           workspace_id    |-> d.workspace_id])
                    /\ nextId' = [nextId EXCEPT !["hosts"] = id + 1]
                    /\ reqs' = Append(reqs,
                          [Committed(r) EXCEPT !.id = id, !.rowcount = 1,
                                               !.pc = "committed"])
    /\ UNCHANGED <<host_groups, workspaces, roles, remote, inflight>>

\* PATCH /api/v1/hosts/<host_id>
update_host(id, d, db) ==
    /\ CanIssue
    /\ LET r == [NewReq("update_host", id, d) EXCEPT !.absent = (id \notin DOMAIN hosts)] IN
       CASE db = "connect_error" ->
              /\ reqs' = Append(reqs, ConnectError(r))
              /\ UNCHANGED hosts
         [] d.name = None /\ d.canonical_facts = None ->
              /\ reqs' = Append(reqs, Respond([r EXCEPT !.conn = "open"], 400))
              /\ UNCHANGED hosts
         [] db = "execute_error" ->
              /\ reqs' = Append(reqs, ExecuteError(r))
              /\ UNCHANGED hosts
         [] RowCount(hosts, id) = 0 ->
              /\ reqs' = Append(reqs,
                    Respond([r EXCEPT !.conn = "open", !.tx = "pending",
                                      !.rowcount = 0], 404))
              /\ UNCHANGED hosts
         [] OTHER ->
              /\ hosts' = SqlUpdate(hosts, id, d)
              /\ reqs' = Append(reqs,
                    Respond([Committed(r) EXCEPT !.rowcount = 1], 200))
    /\ UNCHANGED <<host_groups, workspaces, roles, nextId, remote, inflight>>

\* DELETE /api/v1/hosts/<host_id>, up to conn.close()
delete_host(id, db) ==
    /\ CanIssue
    /\ LET r == [NewReq("delete_host", id, Data(None, None, None))
                   EXCEPT !.absent = (id \notin DOMAIN hosts)] IN
       CASE db = "connect_error" ->
              /\ reqs' = Append(reqs, ConnectError(r))
              /\ UNCHANGED hosts
         [] db = "execute_error" ->
              /\ reqs' = Append(reqs, ExecuteError(r))
              /\ UNCHANGED hosts
         [] RowCount(hosts, id) = 0 ->
              /\ reqs' = Append(reqs,
                    Respond([r EXCEPT !.conn = "open", !.tx = "pending",
                                      !.rowcount = 0], 404))
              /\ UNCHANGED hosts
         [] OTHER ->
              /\ hosts' = SqlDelete(hosts, id)
              /\ reqs' = Append(reqs,
                    [Committed(r) EXCEPT !.rowcount = 1, !.pc = "committed"])
    /\ UNCHANGED <<host_groups, workspaces, roles, nextId, remote, inflight>>

\* the HTTP request of step 2 of create_host / of "Try to delete from Kessel too"
KesselRequest(i) ==
    LET r == reqs[i] IN
    IF r.kind = "create_host"
    THEN [req |-> i, op |-> "POST", id |-> r.id,
          workspace_id |-> IF Missing(r.data.workspace_id) THEN DEFAULT_WORKSPACE
                           ELSE r.data.workspace_id]
    ELSE [req |-> i, op |-> "DELETE", id |-> r.id, workspace_id |-> None]

\* requests.post(..., timeout=5) / requests.delete(..., timeout=5) is entered
PushSend(i) ==
    /\ reqs[i].pc = "committed"
    /\ reqs' = [reqs EXCEPT ![i].pc = "pushing"]
    /\ inflight' = inflight \cup {KesselRequest(i)}
    /\ UNCHANGED <<stores, remote>>

\* what the handler does with a response that carries a status code
OnStatus(r, ok) ==
    IF r.pc # "pushing" THEN r
    ELSE [r EXCEPT !.pc = "respond",
                   !.resp = IF ok THEN "2xx" ELSE "non2xx",
                   !.warn = (r.kind = "create_host" /\ ~ok)]

\* except requests.exceptions.RequestException: app.logger.warning(...)
OnRequestException(r, what) ==
    [r EXCEPT !.pc = "respond", !.resp = what, !.warn = TRUE]

\* Kessel processes a request and answers 200/201
RemoteApply(m) ==
    /\ m \in inflight
    /\ inflight' = inflight \ {m}
    /\ remote' = [remote EXCEPT ![m.id] =
                    IF m.op = "POST" THEN m.workspace_id ELSE NoRes]
    /\ reqs' = [reqs EXCEPT ![m.req] = [OnStatus(@, TRUE) EXCEPT !.landed = TRUE]]
    /\ UNCHANGED stores

\* Kessel answers a request with a status other than 200/201 and applies nothing
RemoteReject(m) ==
    /\ m \in inflight
    /\ inflight' = inflight \ {m}
    /\ reqs' = [reqs EXCEPT ![m.req] = OnStatus(@, FALSE)]
    /\ UNCHANGED <<stores, remote>>

\* a rollback on a failed push, which the code does not do
PushNetErrorRollback(i) ==
    /\ reqs[i].pc = "pushing"
    /\ KesselRequest(i) \in inflight
    /\ inflight' = inflight \ {KesselRequest(i)}
    /\ reqs' = [reqs EXCEPT ![i] = OnRequestException(@, "neterr")]
    /\ hosts' = SqlDelete(hosts, reqs[i].id)
    /\ UNCHANGED <<host_groups, workspaces, roles, nextId, remote>>

\* the request never reaches Kessel: ConnectionError
PushNetError(i) ==
    /\ reqs[i].pc = "pushing"
    /\ KesselRequest(i) \in inflight
    /\ inflight' = inflight \ {KesselRequest(i)}
    /\ reqs' = [reqs EXCEPT ![i] = OnRequestException(@, "neterr")]
    /\ UNCHANGED <<stores, remote>>

\* the timeout escaping to the outer handler, which the code does not let happen
PushTimeoutRaises(i) ==
    /\ reqs[i].pc = "pushing"
    /\ reqs' = [reqs EXCEPT ![i] = Respond([@ EXCEPT !.resp = "timeout"], 500)]
    /\ UNCHANGED <<stores, remote, inflight>>

\* timeout=5 expires: Timeout; Kessel may still process the request later
PushTimeout(i) ==
    /\ reqs[i].pc = "pushing"
    /\ reqs' = [reqs EXCEPT ![i] = OnRequestException(@, "timeout")]
    /\ UNCHANGED <<stores, remote, inflight>>

\* a return that does not wait for the push
ReturnEarly(i) ==
    /\ reqs[i].pc \in {"pushing", "respond"}
    /\ reqs' = [reqs EXCEPT ![i] =
                  Respond(@, IF @.kind = "create_host" THEN 201 ELSE 204)]
    /\ UNCHANGED <<stores, remote, inflight>>

\* return jsonify(host), 201  /  return '', 204
Return(i) ==
    /\ reqs[i].pc = "respond"
    /\ reqs' = [reqs EXCEPT ![i] =
                  Respond(@, IF @.kind = "create_host" THEN 201 ELSE 204)]
    /\ UNCHANGED <<stores, remote, inflight>>

\* POST /api/v1/host-groups
create_host_group(d, db) ==
    /\ CanIssue
    /\ LET r == NewReq("create_host_group", None, d) IN
       IF Missing(d.name)
       THEN /\ reqs' = Append(reqs, Respond(r, 400))
            /\ UNCHANGED <<host_groups, nextId>>
       ELSE CASE db = "connect_error" ->
                 /\ reqs' = Append(reqs, ConnectError(r))
                 /\ UNCHANGED <<host_groups, nextId>>
              [] db = "execute_error" ->
                 /\ reqs' = Append(reqs, ExecuteError(r))
                 /\ UNCHANGED <<host_groups, nextId>>
              [] OTHER ->
                 /\ nextId["host_groups"] <= MaxIds
                 /\ LET id == nextId["host_groups"] IN
                    /\ host_groups' = SqlInsert(host_groups, id,
                          [name |-> d.name, workspace_id |-> d.workspace_id])
                    /\ nextId' = [nextId EXCEPT !["host_groups"] = id + 1]
                    /\ reqs' = Append(reqs,
                          Respond([Committed(r) EXCEPT !.id = id, !.rowcount = 1], 201))
    /\ UNCHANGED <<hosts, workspaces, roles, remote, inflight>>

----------------------------------------------------------------------------
\* insights-rbac

\* POST /api/v1/workspaces
create_workspace(d, db) ==
    /\ CanIssue
    /\ LET r == NewReq("create_workspace", None, d) IN
       IF Missing(d.name)
       THEN /\ reqs' = Append(reqs, Respond(r, 400))
            /\ UNCHANGED <<workspaces, nextId>>
       ELSE CASE db = "connect_error" ->
                 /\ reqs' = Append(reqs, ConnectError(r))
                 /\ UNCHANGED <<workspaces, nextId>>
              [] db = "execute_error" ->
                 /\ reqs' = Append(reqs, ExecuteError(r))
                 /\ UNCHANGED <<workspaces, nextId>>
              [] OTHER ->
                 /\ nextId["workspaces"] <= MaxIds
                 /\ LET id == nextId["workspaces"] IN
                    /\ workspaces' = SqlInsert(workspaces, id, [name |-> d.name])
                    /\ nextId' = [nextId EXCEPT !["workspaces"] = id + 1]
                    /\ reqs' = Append(reqs,
                          Respond([Committed(r) EXCEPT !.id = id, !.rowcount = 1], 201))
    /\ UNCHANGED <<hosts, host_groups, roles, remote, inflight>>

\* DELETE /api/v1/workspaces/<workspace_id>
delete_workspace(id, db) ==
    /\ CanIssue
    /\ LET r == [NewReq("delete_workspace", id, Data(None, None, None))
                   EXCEPT !.absent = (id \notin DOMAIN workspaces)] IN
       CASE db = "connect_error" ->
              /\ reqs' = Append(reqs, ConnectError(r))
              /\ UNCHANGED workspaces
         [] db = "execute_error" ->
              /\ reqs' = Append(reqs, ExecuteError(r))
              /\ UNCHANGED workspaces
         [] RowCount(workspaces, id) = 0 ->
              /\ reqs' = Append(reqs,
                    Respond([r EXCEPT !.conn = "open", !.tx = "pending",
                                      !.rowcount = 0], 404))
              /\ UNCHANGED workspaces
         [] OTHER ->
              /\ workspaces' = SqlDelete(workspaces, id)
              /\ reqs' = Append(reqs,
                    Respond([Committed(r) EXCEPT !.rowcount = 1], 204))
    /\ UNCHANGED <<hosts, host_groups, roles, nextId, remote, inflight>>

\* POST /api/v1/roles
create_role(d, db) ==
    /\ CanIssue
    /\ LET r == NewReq("create_role", None, d) IN
       IF Missing(d.name) \/ Missing(d.workspace_id)
       THEN /\ reqs' = Append(reqs, Respond(r, 400))
            /\ UNCHANGED <<roles, nextId>>
       ELSE CASE db = "connect_error" ->
                 /\ reqs' = Append(reqs, ConnectError(r))
                 /\ UNCHANGED <<roles, nextId>>
              [] db = "execute_error" ->
                 /\ reqs' = Append(reqs, ExecuteError(r))
                 /\ UNCHANGED <<roles, nextId>>
              [] OTHER ->
                 /\ nextId["roles"] <= MaxIds
                 /\ LET id == nextId["roles"] IN
                    /\ roles' = SqlInsert(roles, id,
                          [name |-> d.name, workspace_id |-> d.workspace_id])
                    /\ nextId' = [nextId EXCEPT !["roles"] = id + 1]
                    /\ reqs' = Append(reqs,
                          Respond([Committed(r) EXCEPT !.id = id, !.rowcount = 1], 201))
    /\ UNCHANGED <<hosts, host_groups, workspaces, remote, inflight>>

----------------------------------------------------------------------------
CreateInputs == {Data(n, w, None) : n \in NameInputs, w \in WorkspaceInputs}
\* create_workspace reads name and description only
WorkspaceBodies == {Data(n, None, None) : n \in NameInputs}
UpdateInputs == {Data(n, None, f) : n \in UpdateNames, f \in UpdateFacts}

Next ==
    \/ \E d \in CreateInputs, db \in DbOutcomes : create_host(d, db)
    \/ \E id \in Ids, d \in UpdateInputs, db \in DbOutcomes : update_host(id, d, db)
    \/ \E id \in Ids, db \in DbOutcomes : delete_host(id, db)
    \/ \E d \in CreateInputs, db \in DbOutcomes : create_host_group(d, db)
    \/ \E d \in WorkspaceBodies, db \in DbOutcomes : create_workspace(d, db)
    \/ \E id \in Ids, db \in DbOutcomes : delete_workspace(id, db)
    \/ \E d \in CreateInputs, db \in DbOutcomes : create_role(d, db)
    \/ \E i \in DOMAIN reqs : PushSend(i)
    \/ \E m \in inflight : RemoteApply(m)
    \/ \E m \in inflight : RemoteReject(m)
    \/ \E i \in DOMAIN reqs : PushNetError(i)
    \/ \E i \in DOMAIN reqs : PushTimeout(i)
    \/ \E i \in DOMAIN reqs : Return(i)

Spec == Init /\ [][Next]_vars

----------------------------------------------------------------------------
\* Properties

PushKinds   == {"create_host", "delete_host"}
CreateKinds == {"create_host", "create_host_group", "create_workspace", "create_role"}
TargetKinds == {"update_host", "delete_host", "delete_workspace"}

Success(k) == IF k = "create_host" THEN 201 ELSE 204

\* the handler i has a request to Kessel outstanding
Outstanding(i) == \E m \in inflight : m.req = i

\* the last request to arrive, in the state after a step
Arrived == reqs'[Len(reqs')]

\* C1: a committed local mutation is never undone because of the remote graph.
\* Every step that advances an existing handler (the push being sent, any of
\* its outcomes -- 2xx, non-2xx, connection error, timeout -- and the return)
\* leaves every table exactly as the commit left it.
C1_NoRollback ==
    [][(\E i \in DOMAIN reqs : reqs'[i] # reqs[i]) => UNCHANGED stores]_vars

C1_Witness ==
    \E i \in DOMAIN reqs :
        /\ reqs[i].kind = "create_host"
        /\ reqs[i].resp \in {"non2xx", "neterr", "timeout"}
        /\ reqs[i].pc = "done"
        /\ reqs[i].id \in DOMAIN hosts
        /\ hosts[reqs[i].id].display_name = reqs[i].data.name

C3_NoResurrection ==
    \A i, j \in DOMAIN reqs :
        /\ reqs[i].kind = "create_host" /\ reqs[i].landed
        /\ reqs[j].kind = "delete_host" /\ reqs[j].landed
        /\ reqs[i].id = reqs[j].id
        => remote[reqs[i].id] = NoRes

\* the UPDATE/DELETE named an entity with no row: its outcome
TargetMissingOutcome(i) ==
    LET r == reqs[i] IN
    /\ r.pc = "done"
    /\ r.status \in {400, 404, 500}
    /\ r.status = 404 <=> r.rowcount = 0
    /\ r.status = 400 =>
          r.kind = "update_host" /\ r.data.name = None /\ r.data.canonical_facts = None
    /\ r.tx # "committed"
    /\ r.resp = "none" /\ ~r.landed /\ ~Outstanding(i)

\* C5 as stated: every UPDATE or DELETE of an entity that is not in the local
\* store ends with the not-found result (a store that raises, result 500, is
\* left aside).
C5_AlwaysNotFound ==
    \A i \in DOMAIN reqs :
        /\ reqs[i].kind \in TargetKinds /\ reqs[i].absent
        /\ reqs[i].pc = "done" /\ reqs[i].status # 500
        => reqs[i].status = 404

\* C5 as amended: an UPDATE or DELETE of an entity that is not in the local
\* store never succeeds and advances nothing (no table changes, nothing is
\* committed, no request goes to Kessel); its result is not-found (404) exactly
\* when the statement ran, 400 exactly for an UPDATE that names no field and
\* whose connection was opened, and 500 when the store raised.
C5_NoAdvanceOnMissingTarget ==
    /\ [](\A i \in DOMAIN reqs :
            reqs[i].kind \in TargetKinds /\ reqs[i].absent => TargetMissingOutcome(i))
    /\ [][Len(reqs') > Len(reqs) /\ Arrived.kind \in TargetKinds /\ Arrived.absent
            => UNCHANGED <<stores, remote, inflight>>]_vars

C5_Witness ==
    \E i, j \in DOMAIN reqs :
        /\ reqs[i].kind = "update_host" /\ reqs[i].absent /\ reqs[i].status = 404
        /\ reqs[j].kind \in {"delete_host", "delete_workspace"}
        /\ reqs[j].absent /\ reqs[j].status = 404

\* the required field is None or the empty string
C6_Lacks(v) == v \in {None, ""}

C6_RequiredMissing(r) ==
    /\ r.kind \in CreateKinds
    /\ \/ C6_Lacks(r.data.name)
       \/ r.kind = "create_role" /\ C6_Lacks(r.data.workspace_id)

\* C6: a create whose required fields are missing (display_name of a host, name
\* of a workspace or host group, name and workspace_id of a role) ends with the
\* validation error 400, and nothing advances: no connection is opened, no row
\* is written and no request goes to Kessel.
C6_ValidationError ==
    /\ [](\A i \in DOMAIN reqs :
            C6_RequiredMissing(reqs[i]) =>
                /\ reqs[i].pc = "done" /\ reqs[i].status = 400
                /\ reqs[i].conn = "none" /\ reqs[i].tx = "none"
                /\ reqs[i].id = None
                /\ reqs[i].resp = "none" /\ ~reqs[i].landed /\ ~Outstanding(i))
    /\ [][Len(reqs') > Len(reqs) /\ C6_RequiredMissing(Arrived)
            => UNCHANGED <<stores, remote, inflight>>]_vars

C6_Witness ==
    \E i, j \in DOMAIN reqs :
        /\ reqs[i].kind = "create_host" /\ reqs[i].data.name = None
        /\ reqs[i].status = 400
        /\ reqs[j].kind = "create_role" /\ reqs[j].data.name = "web1"
        /\ reqs[j].data.workspace_id = None /\ reqs[j].status = 400

listDiverged ==
    {reqs[i].id : i \in {j \in DOMAIN reqs : reqs[j].resp = "non2xx" /\ reqs[j].warn}}

\* C8: when the remote graph rejects an apply for an entity, the rejection is
\* recorded and the entity is listed as diverged; it is never silently dropped.
C8_RejectionRecorded ==
    \A i \in DOMAIN reqs :
        reqs[i].resp = "non2xx" => reqs[i].id \in listDiverged

\* C10: after a handler has returned, the connection it opened is closed and
\* no transaction of it is left uncommitted, on every exit path.
C10_ConnectionReleased ==
    \A i \in DOMAIN reqs :
        reqs[i].pc = "done" => reqs[i].conn # "open" /\ reqs[i].tx # "pending"

====
